---------------------------- MODULE Spec2Model ----------------------------
(***************************************************************************)
(* Model of src/landmarks/dataset.py (DogFaceNet, landmark pre-processing): *)
(*   solve          - constrained least-squares similarity transform        *)
(*   compute_masks  - batch driver and per-pixel mask rasterisation         *)
(*   resize_dataset - image resize and landmark rescaling                   *)
(*   rename_dataset - in-place renaming of a directory to 0.jpg..(n-1).jpg  *)
(*                                                                         *)
(* numpy's floating-point numbers are modelled by exact rationals          *)
(* <<numerator, denominator>> (denominator > 0, lowest terms), so that the  *)
(* algebra of the code is checked without rounding.                         *)
(***************************************************************************)
EXTENDS Integers, Sequences, FiniteSets, TLC

\* -------------------------------------------------------------------------
\* Rational arithmetic (the float arithmetic of numpy, without rounding)
\* -------------------------------------------------------------------------
Abs(x) == IF x < 0 THEN -x ELSE x

RECURSIVE GCD(_, _)
\* Euclid's algorithm, three divisions a call
GCD(a, b) ==
    IF b = 0 THEN a
    ELSE IF a % b = 0 THEN b
    ELSE IF b % (a % b) = 0 THEN a % b
    ELSE GCD(b % (a % b), (a % b) % (b % (a % b)))

\* n/d in lowest terms with a positive denominator (d # 0)
Rat(n, d) ==
    LET g == GCD(Abs(n), Abs(d))
        s == IF d < 0 THEN -1 ELSE 1
    IN  <<(s * n) \div g, (s * d) \div g>>

RInt(n) == <<n, 1>>
RZero == RInt(0)
ROne == RInt(1)
RNeg(p) == <<-p[1], p[2]>>
\* the common denominator is the least common multiple, and products cancel
\* crosswise first, which keeps the integers small
RAdd(p, q) ==
    IF p[2] = q[2]
    THEN Rat(p[1] + q[1], p[2])
    ELSE LET g == GCD(p[2], q[2])
         IN  Rat(p[1] * (q[2] \div g) + q[1] * (p[2] \div g), (p[2] \div g) * q[2])
RSub(p, q) == RAdd(p, RNeg(q))
RMul(p, q) ==
    IF p[1] = 0 \/ q[1] = 0
    THEN RZero
    ELSE LET g == GCD(Abs(p[1]), q[2])
             h == GCD(Abs(q[1]), p[2])
         IN  <<(p[1] \div g) * (q[1] \div h), (p[2] \div h) * (q[2] \div g)>>
\* 1 / q for q # 0
RInv(q) == IF q[1] < 0 THEN <<-q[2], -q[1]>> ELSE <<q[2], q[1]>>
\* p / q for q # 0
RDiv(p, q) == RMul(p, RInv(q))
RLeq(p, q) == p[1] * q[2] <= q[1] * p[2]

RECURSIVE RSumRange(_, _, _)
\* sum of f[lo..hi], lo <= hi, added pairwise
RSumRange(f, lo, hi) ==
    IF lo = hi THEN f[lo]
    ELSE LET mid == (lo + hi) \div 2
         IN  RAdd(RSumRange(f, lo, mid), RSumRange(f, mid + 1, hi))

\* sum of f[1..n]
RSum(f, n) == IF n = 0 THEN RZero ELSE RSumRange(f, 1, n)

\* -------------------------------------------------------------------------
\* Matrices: sequences of rows; vectors: sequences of rationals
\* -------------------------------------------------------------------------
Rows(A) == Len(A)
Cols(A) == Len(A[1])

\* the same vector, the same matrix, as tuples with every entry evaluated
Vec(v) == SubSeq(v, 1, Len(v))
Mat(A) == Vec([i \in 1..Len(A) |-> Vec(A[i])])

\* A.T
Transpose(A) == Mat([j \in 1..Cols(A) |-> [i \in 1..Rows(A) |-> A[i][j]]])

\* A.dot(B) for two matrices
MatMul(A, B) ==
    Mat([i \in 1..Rows(A) |->
        [j \in 1..Cols(B) |->
            RSum([k \in 1..Cols(A) |-> RMul(A[i][k], B[k][j])], Cols(A))]])

\* A.dot(v) for a matrix and a vector
MatVec(A, v) ==
    Vec([i \in 1..Rows(A) |->
        RSum([k \in 1..Cols(A) |-> RMul(A[i][k], v[k])], Cols(A))])

\* u.dot(v) for two vectors
Dot(u, v) == RSum([k \in 1..Len(u) |-> RMul(u[k], v[k])], Len(u))

\* A without row r and column c
Minor(A, r, c) ==
    Mat([i \in 1..(Rows(A) - 1) |->
        [j \in 1..(Cols(A) - 1) |->
            A[IF i < r THEN i ELSE i + 1][IF j < c THEN j ELSE j + 1]]])

RECURSIVE Det(_)
Det(A) ==
    IF Rows(A) = 1 THEN A[1][1]
    ELSE IF Rows(A) = 2
    THEN RSub(RMul(A[1][1], A[2][2]), RMul(A[1][2], A[2][1]))
    ELSE RSum([j \in 1..Cols(A) |->
                 LET t == RMul(A[1][j], Det(Minor(A, 1, j)))
                 IN  IF j % 2 = 1 THEN t ELSE RNeg(t)], Cols(A))

\* np.linalg.inv: the inverse, or LinAlgError("Singular matrix")
Inv(A) ==
    LET d == Det(A)
    IN  IF d = RZero
        THEN [err |-> "LinAlgError", M |-> <<>>]
        ELSE [err |-> "none",
              M |-> Mat([i \in 1..Rows(A) |->
                          [j \in 1..Cols(A) |->
                             LET c == RDiv(Det(Minor(A, j, i)), d)
                             IN  IF (i + j) % 2 = 0 THEN c ELSE RNeg(c)]])]


\* -------------------------------------------------------------------------
\* Program constants
\* -------------------------------------------------------------------------
\* landmarks (annotation records) per image
GroupSize == 7

\* -------------------------------------------------------------------------
\* Bounds of the model
\* -------------------------------------------------------------------------
\* landmark y coordinates are 0..MaxY
MaxY == 1

VARIABLES
    csv,         \* the annotation table: label -> [filename, region_count, attrs]
    images,      \* the images directory: filename -> shape of the array imread gives
    dictionary,  \* parsed region_shape_attributes: 0..len-1 -> [cx, cy]
    filenames,   \* the filename column: label -> filename
    pc,          \* position of the running function
    err,         \* the exception that ended the function, or "none"
    i,           \* loop index
    mask,        \* the mask being filled for the current image
    masks,       \* the masks directory: filename -> mask
    log,         \* calls made by compute_masks, in order: <<call, n>>
    output_shape, \* the output_shape argument of resize_dataset
    resized,     \* the resized directory: filename -> [src, shape]
    labels,      \* the labels array, saved as resized_labels.npy at the end
    dir,         \* the directory rename_dataset works on: filename -> content
    listing,     \* what os.listdir returned to rename_dataset
    M,           \* result of the last call of solve
    prevM,       \* result of solve before the landmarks were rotated
    rot          \* rotation applied to the landmarks: <<<<cos, sin>>, centre>> or <<>>

vars == <<csv, images, dictionary, filenames, pc, err, i, mask, masks, log,
          output_shape, resized, labels, dir, listing, M, prevM, rot>>

tableVars == <<csv, images>>
maskVars == <<filenames, i, mask, masks, log>>
resizeVars == <<output_shape, resized, labels>>
renameVars == <<dir, listing>>
solveVars == <<M, prevM, rot>>

Half == Rat(1, 2)
Pt(x, y) == [cx |-> x, cy |-> y]

\* -------------------------------------------------------------------------
\* solve(dictionary, n)
\* -------------------------------------------------------------------------
\* A with the sign of y_6 lost in its first row
SolveA_SignLost(x_6, y_6, x_7, y_7) ==
    << <<x_6, y_6, ROne, RZero>>,
       <<y_6, x_6, RZero, ROne>>,
       <<x_7, RNeg(y_7), ROne, RZero>>,
       <<y_7, x_7, RZero, ROne>> >>

\* A: the two axis points P6, P7, each mapped to its canonical position
SolveA(x_6, y_6, x_7, y_7) ==
    << <<x_6, RNeg(y_6), ROne, RZero>>,
       <<y_6, x_6, RZero, ROne>>,
       <<x_7, RNeg(y_7), ROne, RZero>>,
       <<y_7, x_7, RZero, ROne>> >>

\* b with the canonical heights of P6 and P7 exchanged
SolveB_Exchanged == <<Half, RZero, Half, ROne>>

\* b: P6 goes to (1/2, 1) and P7 to (1/2, 0)
SolveB == <<Half, ROne, Half, RZero>>

\* the rows appended to A: both anchor midpoints at x = 1/2, both pairs level
SolveConstraints(x_1, y_1, x_5, y_5, x_2, y_2, x_4, y_4) ==
    << <<RAdd(x_1, x_5), RNeg(RAdd(y_1, y_5)), RInt(2), RZero>>,
       <<RAdd(x_2, x_4), RNeg(RAdd(y_2, y_4)), RInt(2), RZero>>,
       <<RSub(y_1, y_5), RSub(x_1, x_5), RZero, RZero>>,
       <<RSub(y_2, y_4), RSub(x_2, x_4), RZero, RZero>> >>

SolveBConstraints == <<ROne, ROne, RZero, RZero>>

\* the matrix built from sol
SolveMatrix(sol) ==
    << <<sol[1], RNeg(sol[2]), sol[3]>>,
       <<sol[2], sol[1], sol[4]>>,
       <<RZero, RZero, ROne>> >>

\* [err |-> "none", M |-> the 3x3 matrix], or the exception np.linalg.inv raises
solve(dict, n) ==
    LET x_6 == dict[5 + n].cx
        y_6 == dict[5 + n].cy
        x_7 == dict[6 + n].cx
        y_7 == dict[6 + n].cy
        x_2 == dict[1 + n].cx
        y_2 == dict[1 + n].cy
        x_4 == dict[3 + n].cx
        y_4 == dict[3 + n].cy
        x_1 == dict[0 + n].cx
        y_1 == dict[0 + n].cy
        x_5 == dict[4 + n].cx
        y_5 == dict[4 + n].cy
        A_c == SolveA(x_6, y_6, x_7, y_7)
                 \o SolveConstraints(x_1, y_1, x_5, y_5, x_2, y_2, x_4, y_4)
        b_c == SolveB \o SolveBConstraints
        At == Transpose(A_c)
        inv == Inv(MatMul(At, A_c))
    IN  IF inv.err # "none"
        THEN [err |-> inv.err, M |-> <<>>]
        ELSE [err |-> "none",
              M |-> SolveMatrix(MatVec(inv.M, MatVec(At, b_c)))]

\* -------------------------------------------------------------------------
\* solve applied to one landmark set, and to the same set rotated
\* -------------------------------------------------------------------------
\* landmark x coordinates: the canonical frame's left edge, middle and right edge
Halves == {RZero, Half, ROne}
Units == {RInt(k) : k \in 0..MaxY}
Pts == {Pt(x, y) : x \in Halves, y \in Units}
\* the lower axis point P7
AxisPts == {Pt(RZero, RZero), Pt(Half, RZero)}
\* the second anchor pair <<P2, P4>>: symmetric, coincident, lopsided
NosePairs == {<<Pt(RZero, RZero), Pt(ROne, RZero)>>,
              <<Pt(Half, RZero), Pt(Half, RZero)>>,
              <<Pt(RZero, RZero), Pt(Half, RZero)>>}

\* one image's 7 landmarks, P1..P7 at indices 0..6, from the 6 points that
\* solve reads (P3 fixed)
Landmarks(p1, p2, p4, p5, p6, p7) ==
    [k \in 0..(GroupSize - 1) |->
        CASE k = 0 -> p1 [] k = 1 -> p2 [] k = 2 -> Pt(Half, RZero)
          [] k = 3 -> p4 [] k = 4 -> p5 [] k = 5 -> p6 [] OTHER -> p7]

LandmarkSets ==
    {Landmarks(p1, np[1], np[2], p5, p6, p7) :
        p1 \in Pts, p5 \in Pts, np \in NosePairs, p6 \in Pts, p7 \in AxisPts}

\* rotations <<cos, sin>> by 90, 180 and 270 degrees
Rot90 == <<RZero, ROne>>
Rot180 == <<RInt(-1), RZero>>
Rot270 == <<RZero, RInt(-1)>>
\* <<rotation, centre>>
RotationCases == {<<Rot90, Pt(RZero, RZero)>>, <<Rot90, Pt(Half, ROne)>>,
                  <<Rot180, Pt(Half, ROne)>>, <<Rot270, Pt(ROne, Half)>>}

\* p rotated by the angle of r about the centre c
RotatePt(p, r, c) ==
    LET dx == RSub(p.cx, c.cx)
        dy == RSub(p.cy, c.cy)
    IN  Pt(RAdd(c.cx, RSub(RMul(r[1], dx), RMul(r[2], dy))),
           RAdd(c.cy, RAdd(RMul(r[2], dx), RMul(r[1], dy))))

NoResult == [err |-> "unset", M |-> <<>>]

\* the state of the functions that are not running
IdleTable == csv = <<>> /\ images = <<>>
IdleMasks == filenames = <<>> /\ i = 0 /\ mask = <<>> /\ masks = <<>> /\ log = <<>>
IdleResize == output_shape = <<>> /\ resized = <<>> /\ labels = <<>>
IdleRename == dir = <<>> /\ listing = <<>>
IdleSolve == M = NoResult /\ prevM = NoResult /\ rot = <<>>

InitSolve ==
    /\ dictionary \in LandmarkSets
    /\ pc = "ready"
    /\ err = "none"
    /\ IdleSolve
    /\ IdleTable /\ IdleMasks /\ IdleResize /\ IdleRename

CallSolve ==
    /\ pc = "ready"
    /\ M' = solve(dictionary, 0)
    /\ pc' = "solved"
    /\ UNCHANGED <<dictionary, prevM, rot, err>>
    /\ UNCHANGED <<tableVars, maskVars, resizeVars, renameVars>>

RotateLandmarks ==
    /\ pc = "solved"
    /\ rot = <<>>
    /\ \E rc \in RotationCases :
         /\ dictionary' = [k \in DOMAIN dictionary |->
                               RotatePt(dictionary[k], rc[1], rc[2])]
         /\ rot' = rc
    /\ prevM' = M
    /\ M' = NoResult
    /\ pc' = "ready"
    /\ UNCHANGED <<err, tableVars, maskVars, resizeVars, renameVars>>

NextSolve == CallSolve \/ RotateLandmarks

SpecSolve == InitSolve /\ [][NextSolve]_vars


\* -------------------------------------------------------------------------
\* Properties of solve
\* -------------------------------------------------------------------------
\* the parameters of a returned matrix
ParamA(m) == m[1][1]
ParamB(m) == m[2][1]
ParamTx(m) == m[1][3]
ParamTy(m) == m[2][3]
\* s^2 = a^2 + b^2
Scale2(m) == RAdd(RMul(ParamA(m), ParamA(m)), RMul(ParamB(m), ParamB(m)))

Identity3 ==
    << <<ROne, RZero, RZero>>, <<RZero, ROne, RZero>>, <<RZero, RZero, ROne>> >>

\* a perfectly frontal, axis-aligned landmark set
Frontal(dict) ==
    /\ dict[5] = Pt(Half, ROne)
    /\ dict[6] = Pt(Half, RZero)
    /\ RAdd(dict[0].cx, dict[4].cx) = ROne
    /\ dict[0].cy = dict[4].cy
    /\ RAdd(dict[1].cx, dict[3].cx) = ROne
    /\ dict[1].cy = dict[3].cy

\* three of the 7 landmarks coincide
ThreeDuplicate(dict) ==
    \E p, q, r \in DOMAIN dict :
        p < q /\ q < r /\ dict[p] = dict[q] /\ dict[q] = dict[r]

\* three of the 7 landmarks lie on one line
ThreeCollinear(dict) ==
    \E p, q, r \in DOMAIN dict :
        /\ p < q /\ q < r
        /\ RMul(RSub(dict[q].cx, dict[p].cx), RSub(dict[r].cy, dict[p].cy))
             = RMul(RSub(dict[r].cx, dict[p].cx), RSub(dict[q].cy, dict[p].cy))

\* C3 (as claimed): solve on three or more duplicate or collinear landmarks
\* raises DegenerateGeometryError and returns no matrix.
C3_Claimed ==
    (pc = "solved" /\ (ThreeDuplicate(dictionary) \/ ThreeCollinear(dictionary)))
        => M.err = "DegenerateGeometryError"

\* C5: for a perfectly frontal, axis-aligned landmark set solve returns the
\* identity transform (a = 1, b = 0, tx = ty = 0).
C5_FrontalIdentity ==
    (pc = "solved" /\ Frontal(dictionary))
        => (M.err = "none" /\ M.M = Identity3)

C5_Witness ==
    /\ pc = "solved"
    /\ Frontal(dictionary)
    /\ dictionary[0] # dictionary[4]
    /\ M.err = "none"
    /\ ParamA(M.M) = ROne
    /\ ParamB(M.M) = RZero

Channels == 3
\* images in an annotation table
MaxImages == 2
\* image height and width (and width and height) in pixels
MaxH == 3
MaxW == 2
\* records of an image that is not fully annotated
PartialCount == 3

\* frontal and axis-aligned: solve gives the identity
GFrontal ==
    Landmarks(Pt(RZero, ROne), Pt(RZero, RZero), Pt(ROne, RZero), Pt(ROne, ROne),
              Pt(Half, ROne), Pt(Half, RZero))
\* the frontal face twice as large: solve gives a = 1/2
GLarge ==
    Landmarks(Pt(RZero, RInt(2)), Pt(RZero, RZero), Pt(RInt(2), RZero),
              Pt(RInt(2), RInt(2)), Pt(ROne, RInt(2)), Pt(ROne, RZero))
\* the frontal face turned by 90 degrees about (1/2, 1/2) and moved by (1, 0)
GTurned ==
    Landmarks(Pt(ROne, RZero), Pt(RInt(2), RZero), Pt(RInt(2), ROne), Pt(ROne, ROne),
              Pt(ROne, Half), Pt(RInt(2), Half))
\* all points that solve reads coincide: the normal equations are singular
GCollapsed ==
    Landmarks(Pt(Half, RZero), Pt(Half, RZero), Pt(Half, RZero), Pt(Half, RZero),
              Pt(Half, RZero), Pt(Half, RZero))
\* solve succeeds with a = b = 0: the returned matrix is not invertible
GFlat ==
    Landmarks(Pt(RZero, RZero), Pt(RZero, RZero), Pt(ROne, RZero), Pt(RZero, RZero),
              Pt(RZero, RZero), Pt(RZero, RZero))

GroupChoices == {GFrontal, GLarge, GTurned, GCollapsed, GFlat}

\* an image of the table: its region_count, landmarks and array dimensions
\* (the landmarks of an image without channels are never read)
ImageKinds ==
    [rc : {GroupSize}, group : GroupChoices, ndim : {Channels}]
      \cup [rc : {GroupSize}, group : {GFrontal}, ndim : {1, 2}]
      \cup {[rc |-> PartialCount, group |-> GFrontal, ndim |-> Channels]}

ImageName(k) == "img" \o ToString(k) \o ".jpg"

\* the records of image k, one per annotated landmark
Block(k, kind) ==
    [r \in 1..kind.rc |->
        [filename |-> ImageName(k), region_count |-> kind.rc,
         attrs |-> kind.group[r - 1]]]

RECURSIVE Blocks(_, _)
Blocks(kinds, k) ==
    IF k = 0 THEN <<>> ELSE Blocks(kinds, k - 1) \o Block(k, kinds[k])

\* pd.read_csv: the records under the labels 0..len-1
Table(kinds) ==
    LET rows == Blocks(kinds, Len(kinds))
    IN  [l \in 0..(Len(rows) - 1) |-> rows[l + 1]]

\* the shape of the array imread gives for an h x w image of ndim dimensions
Shape(h, w, ndim) ==
    CASE ndim = 1 -> <<h>> [] ndim = 2 -> <<h, w>> [] OTHER -> <<h, w, Channels>>

ImageDir(kinds, h, w) ==
    [name \in {ImageName(k) : k \in 1..Len(kinds)} |->
        LET k == CHOOSE x \in 1..Len(kinds) : ImageName(x) = name
        IN  Shape(h, w, kinds[k].ndim)]

TableChoices == UNION {[1..N -> ImageKinds] : N \in 1..MaxImages}
Sizes == {<<MaxH, MaxW>>, <<MaxW, MaxH>>}

Init ==
    /\ \E kinds \in TableChoices, size \in Sizes :
         /\ csv = Table(kinds)
         /\ images = ImageDir(kinds, size[1], size[2])
    /\ dictionary = <<>>
    /\ pc = "start"
    /\ err = "none"
    /\ IdleMasks /\ IdleResize /\ IdleRename /\ IdleSolve

\* df[df['region_count']==7]: the labels of the records kept
Kept == {l \in DOMAIN csv : csv[l].region_count = GroupSize}

\* series[label] of pandas: the labels that range(len) asks for and are missing
MissingLabels(kept) == {l \in 0..(Cardinality(kept) - 1) : l \notin kept}

\* lines 185-195: read and filter the table, parse the landmarks
LoadMasks ==
    /\ pc = "start"
    /\ IF MissingLabels(Kept) # {}
       THEN /\ pc' = "raised"
            /\ err' = "KeyError"
            /\ UNCHANGED <<dictionary, filenames>>
       ELSE /\ dictionary' = [l \in 0..(Cardinality(Kept) - 1) |-> csv[l].attrs]
            /\ filenames' = [l \in Kept |-> csv[l].filename]
            /\ pc' = "loop"
            /\ err' = "none"
    /\ UNCHANGED <<tableVars, i, mask, masks, log, resizeVars, renameVars, solveVars>>

\* the test of line 221 with the upper bounds excluded
Inside_UpperExcluded(dot1, dot2) ==
    /\ RLeq(RZero, dot1) /\ dot1 # ROne /\ RLeq(dot1, ROne)
    /\ RLeq(RZero, dot2) /\ dot2 # ROne /\ RLeq(dot2, ROne)

\* the test of line 221 with the lower bounds excluded
Inside_LowerExcluded(dot1, dot2) ==
    /\ RLeq(RZero, dot1) /\ dot1 # RZero /\ RLeq(dot1, ROne)
    /\ RLeq(RZero, dot2) /\ dot2 # RZero /\ RLeq(dot2, ROne)

\* line 221: the pixel is inside the parallelogram, its boundary included
Inside(dot1, dot2) ==
    /\ RLeq(RZero, dot1) /\ RLeq(dot1, ROne)
    /\ RLeq(RZero, dot2) /\ RLeq(dot2, ROne)

\* lines 203-222: the mask of an h x w image for the inverse transform P.
\* Dividing by a zero n_ab or n_ad gives nan or inf, for which the test of line
\* 221 is false: no pixel is marked.
Rasterize(P, h, w) ==
    LET A == MatVec(P, <<RZero, RZero, ROne>>)
        B == MatVec(P, <<ROne, RZero, ROne>>)
        D == MatVec(P, <<RZero, ROne, ROne>>)
        AB == <<RSub(B[1], A[1]), RSub(B[2], A[2])>>
        AD == <<RSub(D[1], A[1]), RSub(D[2], A[2])>>
        n_ab == Dot(AB, AB)
        n_ad == Dot(AD, AD)
    IN  IF n_ab = RZero \/ n_ad = RZero
        THEN [row \in 0..(h - 1) |-> [col \in 0..(w - 1) |-> 0]]
        ELSE [row \in 0..(h - 1) |->
                [col \in 0..(w - 1) |->
                    LET AX == <<RSub(RInt(col), A[1]), RSub(RInt(row), A[2])>>
                        dot1 == RDiv(Dot(AX, AB), n_ab)
                        dot2 == RDiv(Dot(AX, AD), n_ad)
                    IN  IF Inside(dot1, dot2) THEN 1 ELSE 0]]

\* range(len(filenames)//7)
NGroups == Cardinality(DOMAIN filenames) \div GroupSize

\* line 200: the image is processed
HasChannels(image) == Len(image) > 2

\* lines 198-200 with an image that is not processed
SkipImage ==
    /\ pc = "loop"
    /\ i < NGroups
    /\ ~HasChannels(images[filenames[i * GroupSize]])
    /\ i' = i + 1
    /\ UNCHANGED <<tableVars, dictionary, filenames, pc, err, mask, masks, log>>
    /\ UNCHANGED <<resizeVars, renameVars, solveVars>>

\* lines 198-201: the image is read and solve is called on its landmarks
SolveImage ==
    /\ pc = "loop"
    /\ i < NGroups
    /\ HasChannels(images[filenames[i * GroupSize]])
    /\ LET sol == solve(dictionary, i * GroupSize)
       IN  /\ M' = sol
           /\ err' = sol.err
           /\ pc' = IF sol.err = "none" THEN "rasterize" ELSE "raised"
    /\ log' = Append(log, <<"solve", i * GroupSize>>)
    /\ UNCHANGED <<tableVars, dictionary, filenames, i, mask, masks>>
    /\ UNCHANGED <<resizeVars, renameVars, prevM, rot>>

\* lines 202-222: the transform is inverted and the mask is filled
RasterizeImage ==
    /\ pc = "rasterize"
    /\ LET image == images[filenames[i * GroupSize]]
           P == Inv(M.M)
       IN  IF P.err = "none"
           THEN /\ mask' = Rasterize(P.M, image[1], image[2])
                /\ log' = Append(log, <<"rasterize", i * GroupSize>>)
                /\ pc' = "save"
                /\ err' = "none"
           ELSE /\ pc' = "raised"
                /\ err' = P.err
                /\ UNCHANGED <<mask, log>>
    /\ UNCHANGED <<tableVars, dictionary, filenames, i, masks>>
    /\ UNCHANGED <<resizeVars, renameVars, solveVars>>

\* line 224: the mask is saved under the image's filename
SaveMask ==
    /\ pc = "save"
    /\ masks' = (filenames[i * GroupSize] :> mask) @@ masks
    /\ log' = Append(log, <<"imsave", i * GroupSize>>)
    /\ i' = i + 1
    /\ pc' = "loop"
    /\ UNCHANGED <<tableVars, dictionary, filenames, err, mask>>
    /\ UNCHANGED <<resizeVars, renameVars, solveVars>>

\* the loop of line 197 is exhausted
FinishMasks ==
    /\ pc = "loop"
    /\ i = NGroups
    /\ pc' = "done"
    /\ UNCHANGED <<tableVars, dictionary, filenames, err, i, mask, masks, log>>
    /\ UNCHANGED <<resizeVars, renameVars, solveVars>>

Next ==
    \/ LoadMasks
    \/ SkipImage
    \/ SolveImage
    \/ RasterizeImage
    \/ SaveMask
    \/ FinishMasks

Spec == Init /\ [][Next]_vars



\* -------------------------------------------------------------------------
\* Properties of compute_masks
\* -------------------------------------------------------------------------
\* the groups whose mask has been saved
SavedGroups == {log[k][2] : k \in {x \in 1..Len(log) : log[x][1] = "imsave"}}

\* compute_masks has returned or raised after reading the table
Ended == pc \in {"done", "raised"} /\ err # "KeyError"

\* the corners A, B, D for the transform T: the images of (0,0), (1,0), (0,1)
\* under the inverse of T
Corner(T, x, y) == MatVec(Inv(T).M, <<x, y, ROne>>)

\* (AX . V) / |V|^2 for the pixel (row, col), the corner A and the edge from A to C
EdgeCoordinate(row, col, A, C) ==
    LET V == <<RSub(C[1], A[1]), RSub(C[2], A[2])>>
        AX == <<RSub(RInt(col), A[1]), RSub(RInt(row), A[2])>>
    IN  RDiv(RAdd(RMul(AX[1], V[1]), RMul(AX[2], V[2])),
             RAdd(RMul(V[1], V[1]), RMul(V[2], V[2])))

InUnit(x) == RLeq(RZero, x) /\ RLeq(x, ROne)

\* C1: a mask is saved only for a group that solve and the inversion accept;
\* it has the image's h rows and w columns, and its pixel (row, col) is 1 iff
\* 0 <= dot1 <= 1 and 0 <= dot2 <= 1, bounds included, and 0 otherwise.
C1_MaskPixels ==
    \A n \in SavedGroups :
        LET name == filenames[n]
            h == images[name][1]
            w == images[name][2]
            sol == solve(dictionary, n)
            P == Inv(sol.M)
            A == MatVec(P.M, <<RZero, RZero, ROne>>)
            B == MatVec(P.M, <<ROne, RZero, ROne>>)
            D == MatVec(P.M, <<RZero, ROne, ROne>>)
        IN  /\ sol.err = "none"
            /\ P.err = "none"
            /\ A # B /\ A # D
            /\ DOMAIN masks[name] = 0..(h - 1)
            /\ \A row \in 0..(h - 1) :
                 /\ DOMAIN masks[name][row] = 0..(w - 1)
                 /\ \A col \in 0..(w - 1) :
                      masks[name][row][col] =
                          IF /\ InUnit(EdgeCoordinate(row, col, A, B))
                             /\ InUnit(EdgeCoordinate(row, col, A, D))
                          THEN 1 ELSE 0

\* a turned face: the mask has pixels on the boundary (marked) and outside
C1_Witness ==
    /\ pc = "done"
    /\ \E n \in SavedGroups :
         LET m == masks[filenames[n]]
             T == solve(dictionary, n).M
             A == Corner(T, RZero, RZero)
             B == Corner(T, ROne, RZero)
         IN  /\ ParamB(T) # RZero
             /\ \E row \in DOMAIN m : \E col \in DOMAIN m[row] :
                  /\ m[row][col] = 1
                  /\ EdgeCoordinate(row, col, A, B) \in {RZero, ROne}
             /\ \E row \in DOMAIN m : \E col \in DOMAIN m[row] : m[row][col] = 0

\* solve and the inversion of its matrix succeed on the group at n
Solvable(n) ==
    /\ solve(dictionary, n).err = "none"
    /\ Inv(solve(dictionary, n).M).err = "none"

\* C2 (as claimed): a degenerate group never aborts the batch: when
\* compute_masks ends, the mask of every later group is written.
C2_Claimed ==
    Ended =>
        \A g \in 0..(NGroups - 1) :
            (HasChannels(images[filenames[g * GroupSize]]) /\ Solvable(g * GroupSize))
                => filenames[g * GroupSize] \in DOMAIN masks

\* C4 (as claimed): for the identity transform the mask marks every pixel
\* (i, j) with 0 <= i < h and 0 <= j < w.
C4_Claimed ==
    \A n \in SavedGroups :
        solve(dictionary, n).M = Identity3 =>
            \A row \in DOMAIN masks[filenames[n]] :
                \A col \in DOMAIN masks[filenames[n]][row] :
                    masks[filenames[n]][row][col] = 1

\* C4 (amended): for the identity transform the mask marks exactly the pixels
\* (i, j) of the image with i <= 1 and j <= 1, those with dot1 = j and
\* dot2 = i equal to 0 or 1 included.
C4_IdentityMask ==
    \A n \in SavedGroups :
        solve(dictionary, n).M = Identity3 =>
            \A row \in DOMAIN masks[filenames[n]] :
                \A col \in DOMAIN masks[filenames[n]][row] :
                    (masks[filenames[n]][row][col] = 1) <=> (row <= 1 /\ col <= 1)

C4_Witness ==
    \E n \in SavedGroups :
        LET m == masks[filenames[n]]
        IN  /\ solve(dictionary, n).M = Identity3
            /\ images[filenames[n]][1] > 2
            /\ m[0][0] = 1 /\ m[1][1] = 1 /\ m[2][0] = 0

RECURSIVE ExpectedLog(_)
\* the calls for the first g groups, were every image of more than one
\* dimension solved, rasterized and saved
ExpectedLog(g) ==
    IF g = 0 THEN <<>>
    ELSE LET n == (g - 1) * GroupSize
         IN  ExpectedLog(g - 1) \o
               (IF Len(images[filenames[n]]) > 1
                THEN << <<"solve", n>>, <<"rasterize", n>>, <<"imsave", n>> >>
                ELSE <<>>)

\* C7 (as claimed): when compute_masks returns, every group has been visited
\* once, in order, and every image of more than one dimension has been solved,
\* rasterized and saved once, the others skipped.
C7_Claimed == pc = "done" => log = ExpectedLog(NGroups)

\* the filenames of the fully annotated images of the table
FullNames == {csv[l].filename : l \in Kept}

\* the group at n is the 7 records of one fully annotated image and its filename
GroupOfOneImage(n) ==
    \E s \in DOMAIN csv :
        \A k \in 0..(GroupSize - 1) :
            /\ s + k \in DOMAIN csv
            /\ csv[s + k].filename = filenames[n]
            /\ csv[s + k].region_count = GroupSize
            /\ csv[s + k].attrs = dictionary[n + k]

\* C8 (as claimed): for any table the groups are the fully annotated images,
\* each with its own 7 records and filename, and none is lost.
C8_Claimed ==
    pc # "start" =>
        /\ err # "KeyError"
        /\ NGroups = Cardinality(FullNames)
        /\ \A g \in 0..(NGroups - 1) : GroupOfOneImage(g * GroupSize)


\* -------------------------------------------------------------------------
\* resize_dataset
\* -------------------------------------------------------------------------
\* the default output_shape and the one of the call in __main__
OutputShapes == {<<500, 500, Channels>>, <<100, 100, Channels>>}

\* tables of fully annotated images only: 7 records an image
FullKinds == [rc : {GroupSize}, group : {GFrontal, GLarge}, ndim : {1, 2, Channels}]
FullTableChoices == UNION {[1..N -> FullKinds] : N \in 1..MaxImages}

\* str(k) + '.jpg'
NumName(k) == ToString(k) \o ".jpg"

InitResize ==
    /\ \E kinds \in FullTableChoices, size \in Sizes :
         /\ csv = Table(kinds)
         /\ images = ImageDir(kinds, size[1], size[2])
    /\ output_shape \in OutputShapes
    /\ dictionary = <<>>
    /\ pc = "start"
    /\ err = "none"
    /\ resized = <<>>
    /\ labels = <<>>
    /\ IdleMasks /\ IdleRename /\ IdleSolve

\* lines 31-43: read the table (unfiltered) and parse the landmarks
LoadResize ==
    /\ pc = "start"
    /\ dictionary' = [l \in DOMAIN csv |-> csv[l].attrs]
    /\ filenames' = [l \in DOMAIN csv |-> csv[l].filename]
    /\ pc' = "loop"
    /\ UNCHANGED <<tableVars, err, i, mask, masks, log, resizeVars, renameVars, solveVars>>

\* lines 58-63: the 7 landmarks at n scaled by b = w/y and a = h/x
RescaledLandmarks(dict, n, a, b) ==
    [k \in 0..(GroupSize - 1) |->
        <<RMul(dict[n + k].cx, b), RMul(dict[n + k].cy, a)>>]

\* range(0, len(filenames)-7, 7): i is one of its values
InResizeRange(n, len) == n < len - GroupSize

\* lines 47-49 with an image of a single dimension
ResizeSkip ==
    /\ pc = "loop"
    /\ InResizeRange(i, Cardinality(DOMAIN filenames))
    /\ ~(Len(images[filenames[i]]) > 1)
    /\ i' = i + GroupSize
    /\ UNCHANGED <<tableVars, dictionary, filenames, pc, err, mask, masks, log>>
    /\ UNCHANGED <<resizeVars, renameVars, solveVars>>

\* lines 47-65: the image is resized and saved; its shape is unpacked into
\* three names (a ValueError for a 2-dimensional array) and its landmarks are
\* rescaled and appended
ResizeImage ==
    /\ pc = "loop"
    /\ InResizeRange(i, Cardinality(DOMAIN filenames))
    /\ LET image == images[filenames[i]]
           h == output_shape[1]
           w == output_shape[2]
       IN  /\ Len(image) > 1
           /\ resized' = (NumName(i \div GroupSize) :>
                             [src |-> filenames[i], shape |-> output_shape]) @@ resized
           /\ IF Len(image) = 3
              THEN /\ labels' = Append(labels,
                          RescaledLandmarks(dictionary, i,
                                            Rat(h, image[1]), Rat(w, image[2])))
                   /\ i' = i + GroupSize
                   /\ UNCHANGED <<pc, err>>
              ELSE /\ pc' = "raised"
                   /\ err' = "ValueError"
                   /\ UNCHANGED <<labels, i>>
    /\ UNCHANGED <<tableVars, dictionary, filenames, mask, masks, log, output_shape>>
    /\ UNCHANGED <<renameVars, solveVars>>

\* line 67: the range is exhausted and the labels are saved
FinishResize ==
    /\ pc = "loop"
    /\ ~InResizeRange(i, Cardinality(DOMAIN filenames))
    /\ pc' = "done"
    /\ UNCHANGED <<tableVars, dictionary, filenames, err, i, mask, masks, log>>
    /\ UNCHANGED <<resizeVars, renameVars, solveVars>>

NextResize == LoadResize \/ ResizeSkip \/ ResizeImage \/ FinishResize

SpecResize == InitResize /\ [][NextResize]_vars

\* the number of images of a table of 7 records an image
NImages == Cardinality(DOMAIN csv) \div GroupSize

\* C9 (as claimed): for 7*N records of N images of more than one dimension,
\* resize_dataset ends with N resized images and N label entries: image k is
\* saved as k.jpg and labels[k] holds its 7 rescaled landmarks.
C9_Claimed ==
    (/\ pc \in {"done", "raised"}
     /\ \A k \in 0..(NImages - 1) : Len(images[csv[k * GroupSize].filename]) = 3)
        => /\ pc = "done"
           /\ Len(labels) = NImages
           /\ \A k \in 0..(NImages - 1) :
                LET image == images[csv[k * GroupSize].filename]
                IN  /\ NumName(k) \in DOMAIN resized
                    /\ resized[NumName(k)].src = csv[k * GroupSize].filename
                    /\ labels[k + 1] =
                         [p \in 0..(GroupSize - 1) |->
                            <<RMul(csv[k * GroupSize + p].attrs.cx,
                                   Rat(output_shape[2], image[2])),
                              RMul(csv[k * GroupSize + p].attrs.cy,
                                   Rat(output_shape[1], image[1]))>>]

\* -------------------------------------------------------------------------
\* rename_dataset
\* -------------------------------------------------------------------------
\* files in the directory
MaxFiles == 3

\* names a file of the directory can have before the run
NamePool == {NumName(k) : k \in 0..(MaxFiles - 1)} \cup {"a.jpg"}

\* the content of the image file first stored under name
Original(name) == [image |-> name, saves |-> 0]
\* imsave: the image is encoded again
Reencoded(content) == [image |-> content.image, saves |-> content.saves + 1]

\* the sequences that list every element of S once
Orderings(S) ==
    {q \in [1..Cardinality(S) -> S] : \A x \in S : \E k \in DOMAIN q : q[k] = x}

InitRename ==
    /\ \E names \in SUBSET NamePool :
         /\ names # {}
         /\ Cardinality(names) <= MaxFiles
         /\ dir = [name \in names |-> Original(name)]
    /\ listing = <<>>
    /\ pc = "start"
    /\ err = "none"
    /\ dictionary = <<>>
    /\ IdleTable /\ IdleMasks /\ IdleResize /\ IdleSolve

\* line 94: os.listdir gives the names in an arbitrary order
ListDir ==
    /\ pc = "start"
    /\ listing' \in Orderings(DOMAIN dir)
    /\ pc' = "loop"
    /\ UNCHANGED <<tableVars, dictionary, err, maskVars, resizeVars, dir, solveVars>>

\* the directory without the file name
Removed(d, name) == [f \in DOMAIN d \ {name} |-> d[f]]

\* lines 96-98: the file is read, removed and saved again as str(i) + '.jpg'
RenameFile ==
    /\ pc = "loop"
    /\ i < Len(listing)
    /\ IF listing[i + 1] \in DOMAIN dir
       THEN /\ dir' = (NumName(i) :> Reencoded(dir[listing[i + 1]]))
                         @@ Removed(dir, listing[i + 1])
            /\ i' = i + 1
            /\ UNCHANGED <<pc, err>>
       ELSE /\ pc' = "raised"
            /\ err' = "FileNotFoundError"
            /\ UNCHANGED <<dir, i>>
    /\ UNCHANGED <<tableVars, dictionary, filenames, mask, masks, log>>
    /\ UNCHANGED <<resizeVars, listing, solveVars>>

\* the loop of line 95 is exhausted
FinishRename ==
    /\ pc = "loop"
    /\ i = Len(listing)
    /\ pc' = "done"
    /\ UNCHANGED <<tableVars, dictionary, err, maskVars, resizeVars, renameVars, solveVars>>

NextRename == ListDir \/ RenameFile \/ FinishRename

SpecRename == InitRename /\ [][NextRename]_vars

\* C10 (as claimed): after the run over n files the directory holds exactly
\* 0.jpg..(n-1).jpg and every original image is in exactly one of them.
C10_Claimed ==
    pc \in {"done", "raised"} =>
        /\ pc = "done"
        /\ DOMAIN dir = {NumName(k) : k \in 0..(Len(listing) - 1)}
        /\ \A k \in DOMAIN listing :
             Cardinality({f \in DOMAIN dir : dir[f].image = listing[k]}) = 1

=============================================================================
